---- MODULE Spec2Model ----
(***************************************************************************)
(* A model of the wireframe-to-code generator (bgradecoding/productai).    *)
(*                                                                         *)
(* The repository holds several variants of the application.  The         *)
(* specification Spec models the node-graph application (App with         *)
(* useNodesState, the WireframeCanvas with onDrop and the drag palette);   *)
(* SpecDnd models the variant whose text input triggers a debounced        *)
(* generation; SpecRoundTrip applies componentToNode / nodeToComponent to  *)
(* component collections.  SpecWire, SpecGraph, SpecEdges, SpecExtract and *)
(* SpecEditor are parts of the node-graph application taken alone;         *)
(* SpecCanvas is the dnd-kit canvas of the first application.  The         *)
(* variable overtaken is a history variable that no handler reads.         *)
(*                                                                         *)
(* Text is modelled as a sequence of tokens: a token is a run of           *)
(* characters that the program never looks into.  The characters the       *)
(* program does look for (braces, quotes, the tags "</head>", "<style>",   *)
(* ...) are tokens of their own, so that String.includes, String.replace,  *)
(* the regular expression of the extractor and JSON.parse can be computed  *)
(* on the tokens as the code computes them on the characters.              *)
(***************************************************************************)
EXTENDS Integers, Sequences, FiniteSets, TLC

VARIABLES
  mode,               \* useState<Mode>: "text" | "wireframe"
  textInput,          \* useState(""): the free-text description (tokens)
  generatedCode,      \* useState({html, css, javascript})
  isLoading,          \* useState(false)
  activeCodeTab,      \* useState<CodeTab>("html")
  selectedComponent,  \* useState<string | null>(null): an id or Null
  nodes,              \* useNodesState([]): the sequence of graph nodes
  edges,              \* useEdgesState([]): the sequence of graph edges
  components,         \* wireframeData.components of the debounced variant
  timer,              \* the pending debounce timeout of the debounced variant
  inflight,           \* the remote calls awaited: <<[prompt |-> ...], ...>>
  overtaken,          \* per awaited call: a call started later has set the code
  toast,              \* the last notification shown
  rt                  \* the round trip under SpecRoundTrip

vars == <<mode, textInput, generatedCode, isLoading, activeCodeTab,
          selectedComponent, nodes, edges, components, timer, inflight, toast,
          rt, overtaken>>

----------------------------------------------------------------------------
(* Bounds of the model.                                                    *)

\* the canvas holds at most MaxNodes nodes
MaxNodes == 2
\* at most MaxInFlight remote calls are awaited at once
MaxInFlight == 2
\* a component collection of the round trip has at most MaxComponents elements
MaxComponents == 2
\* the canvas holds at most MaxEdges edges
MaxEdges == 1

----------------------------------------------------------------------------
(* Sets and sequences.                                                     *)

Min(S) == CHOOSE a \in S : \A b \in S : a <= b
Max(S) == CHOOSE a \in S : \A b \in S : b <= a

Range(s) == {s[i] : i \in DOMAIN s}

\* Array.prototype.map
MapSeq(s, F(_)) == [i \in DOMAIN s |-> F(s[i])]

----------------------------------------------------------------------------
(* JavaScript values.  A value has a type t, a text s (the tokens of a     *)
(* string, the literal of a number or boolean) and the members m of an     *)
(* object as a sequence of <<key, value>> pairs in source order (of an     *)
(* array: its elements).                                                   *)

Str(s)    == [t |-> "string", s |-> s, m |-> <<>>]
Num(lit)  == [t |-> "number", s |-> <<lit>>, m |-> <<>>]
Bool(lit) == [t |-> "boolean", s |-> <<lit>>, m |-> <<>>]
Obj(m)    == [t |-> "object", s |-> <<>>, m |-> m]
Arr(elems) == [t |-> "array", s |-> <<>>, m |-> elems]
JsNull    == [t |-> "null", s |-> <<>>, m |-> <<>>]
Undefined == [t |-> "undefined", s |-> <<>>, m |-> <<>>]

\* ToBoolean: "", 0, false, null and undefined are falsy
Truthy(v) ==
  CASE v.t = "string"  -> v.s # <<>>
    [] v.t = "number"  -> v.s # <<"0">>
    [] v.t = "boolean" -> v.s = <<"true">>
    [] v.t \in {"null", "undefined"} -> FALSE
    [] OTHER -> TRUE

\* a || b
OrElse(a, b) == IF Truthy(a) THEN a ELSE b

\* obj.key: the last member of that name wins; undefined when there is none
\* (and for a key of a number, a string, a boolean or an array)
Member(v, key) ==
  IF v.t # "object" THEN Undefined
  ELSE LET hits == {i \in DOMAIN v.m : v.m[i][1] = key}
       IN  IF hits = {} THEN Undefined ELSE v.m[Max(hits)][2]

----------------------------------------------------------------------------
(* JSON.parse on tokens.                                                   *)

Q == "\""
Whitespace == {" ", "\n"}
NumberLiterals == {"0", "123"}
BooleanLiterals == {"true", "false"}

\* the index of the first token at or after i that is not white space
SkipWs(s, i) ==
  LET rest == {j \in i..Len(s) : s[j] \notin Whitespace}
  IN  IF rest = {} THEN Len(s) + 1 ELSE Min(rest)

\* an escape sequence inside a JSON string stands for the character it names
Unescape(tok) ==
  CASE tok = "\\n"  -> "\n"
    [] tok = "\\\"" -> Q
    [] OTHER        -> tok

Failure == [ok |-> FALSE, val |-> Undefined, next |-> 0]

\* s[i] is an opening quote: the string runs to the next quote; a raw line
\* break inside it is a syntax error
ParseString(s, i) ==
  LET closers == {j \in (i + 1)..Len(s) : s[j] = Q}
  IN  IF closers = {} THEN Failure
      ELSE LET j == Min(closers)
               raw == SubSeq(s, i + 1, j - 1)
           IN  IF "\n" \in Range(raw) THEN Failure
               ELSE [ok |-> TRUE, val |-> Str(MapSeq(raw, Unescape)), next |-> j + 1]

RECURSIVE ParseValue(_, _)
RECURSIVE ParseMembers(_, _, _)
RECURSIVE ParseElements(_, _, _)

\* the members after "{" or ",": "key" : value, then "," or "}"
ParseMembers(s, i, acc) ==
  IF i > Len(s) \/ s[i] # Q THEN Failure
  ELSE LET k == ParseString(s, i)
       IN  IF ~k.ok THEN Failure
           ELSE LET c == SkipWs(s, k.next)
                IN  IF c > Len(s) \/ s[c] # ":" THEN Failure
                    ELSE LET v == ParseValue(s, c + 1)
                         IN  IF ~v.ok THEN Failure
                             ELSE LET e == SkipWs(s, v.next)
                                      all == Append(acc, <<k.val.s, v.val>>)
                                  IN  IF e > Len(s) THEN Failure
                                      ELSE IF s[e] = "}"
                                             THEN [ok |-> TRUE, val |-> Obj(all), next |-> e + 1]
                                      ELSE IF s[e] = ","
                                             THEN ParseMembers(s, SkipWs(s, e + 1), all)
                                      ELSE Failure

\* the elements after "[" or ",": value, then "," or "]"
ParseElements(s, i, acc) ==
  LET v == ParseValue(s, i)
  IN  IF ~v.ok THEN Failure
      ELSE LET e == SkipWs(s, v.next)
               all == Append(acc, v.val)
           IN  IF e > Len(s) THEN Failure
               ELSE IF s[e] = "]" THEN [ok |-> TRUE, val |-> Arr(all), next |-> e + 1]
               ELSE IF s[e] = "," THEN ParseElements(s, e + 1, all)
               ELSE Failure

ParseValue(s, i) ==
  LET b == SkipWs(s, i)
  IN  IF b > Len(s) THEN Failure
      ELSE LET tok == s[b]
               a == SkipWs(s, b + 1)
           IN  CASE tok = Q -> ParseString(s, b)
                 [] tok = "{" ->
                      IF a <= Len(s) /\ s[a] = "}"
                        THEN [ok |-> TRUE, val |-> Obj(<<>>), next |-> a + 1]
                        ELSE ParseMembers(s, a, <<>>)
                 [] tok = "[" ->
                      IF a <= Len(s) /\ s[a] = "]"
                        THEN [ok |-> TRUE, val |-> Arr(<<>>), next |-> a + 1]
                        ELSE ParseElements(s, b + 1, <<>>)
                 [] tok = "null" -> [ok |-> TRUE, val |-> JsNull, next |-> b + 1]
                 [] tok \in BooleanLiterals ->
                      [ok |-> TRUE, val |-> Bool(tok), next |-> b + 1]
                 [] tok \in NumberLiterals ->
                      [ok |-> TRUE, val |-> Num(tok), next |-> b + 1]
                 [] OTHER -> Failure

\* JSON.parse(text): one value, white space around it, nothing else;
\* ok = FALSE stands for the SyntaxError it throws
JSONParse(s) ==
  LET v == ParseValue(s, 1)
  IN  IF v.ok /\ SkipWs(s, v.next) > Len(s)
        THEN [ok |-> TRUE, val |-> v.val]
        ELSE [ok |-> FALSE, val |-> Undefined]

\* JSON.stringify of a string: quotes around it, the quote and the line break
\* escaped
Escape(tok) ==
  CASE tok = "\n" -> "\\n"
    [] tok = Q    -> "\\\""
    [] OTHER      -> tok

StringifyString(text) == <<Q>> \o MapSeq(text, Escape) \o <<Q>>

\* Array.prototype.join on token sequences
RECURSIVE Join(_, _)
Join(parts, sep) ==
  IF parts = <<>> THEN <<>>
  ELSE IF Len(parts) = 1 THEN parts[1]
  ELSE parts[1] \o sep \o Join(Tail(parts), sep)

\* String(v), as a template literal `${v}` computes it
RECURSIVE JsToString(_)
JsToString(v) ==
  CASE v.t \in {"string", "number", "boolean"} -> v.s
    [] v.t = "null"      -> <<"null">>
    [] v.t = "undefined" -> <<"undefined">>
    [] v.t = "object"    -> <<"[object Object]">>
    [] v.t = "array"     ->
         Join([i \in DOMAIN v.m |->
                 IF v.m[i].t \in {"null", "undefined"} THEN <<>>
                 ELSE JsToString(v.m[i])], <<",">>)

----------------------------------------------------------------------------
(* String.prototype.includes, trim and replace on tokens.                  *)

Includes(text, tok) == tok \in Range(text)

IndexOf(text, tok) == Min({i \in DOMAIN text : text[i] = tok})

\* String.prototype.trim
Trim(text) ==
  LET solid == {i \in DOMAIN text : text[i] \notin Whitespace}
  IN  IF solid = {} THEN <<>> ELSE SubSeq(text, Min(solid), Max(solid))

\* the replacement patterns of String.prototype.replace: $$ is a dollar sign,
\* $& the matched text, $` the text before the match, $' the text after it
RECURSIVE ExpandReplacement(_, _, _, _)
ExpandReplacement(repl, matched, before, after) ==
  IF repl = <<>> THEN <<>>
  ELSE (CASE Head(repl) = "$$" -> <<"$">>
          [] Head(repl) = "$&" -> <<matched>>
          [] Head(repl) = "$`" -> before
          [] Head(repl) = "$'" -> after
          [] OTHER             -> <<Head(repl)>>)
       \o ExpandReplacement(Tail(repl), matched, before, after)

\* text.replace(pattern, replacement) with a string pattern: the first
\* occurrence only; the text itself when there is none
Replace(text, pattern, repl) ==
  IF ~Includes(text, pattern) THEN text
  ELSE LET i == IndexOf(text, pattern)
           before == SubSeq(text, 1, i - 1)
           after == SubSeq(text, i + 1, Len(text))
       IN  before \o ExpandReplacement(repl, pattern, before, after) \o after

----------------------------------------------------------------------------
(* The generated artifacts and the assembled document.                     *)

HtmlPlaceholder == "<!-- Your generated HTML will appear here -->"
CssPlaceholder == "/* Your generated CSS will appear here */"
JsPlaceholder == "// Your generated JavaScript will appear here"

InitialCode ==
  [html |-> Str(<<HtmlPlaceholder>>),
   css |-> Str(<<CssPlaceholder>>),
   javascript |-> Str(<<JsPlaceholder>>)]

\* what evaluating srcDoc gives when it throws
TypeError == [t |-> "TypeError", s |-> <<>>, m |-> <<>>]

\* html.includes(tok): String.prototype.includes, or Array.prototype.includes
\* when the html artifact is an array
HtmlIncludes(html, tok) ==
  IF html.t = "string" THEN Includes(html.s, tok)
  ELSE \E i \in DOMAIN html.m : html.m[i] = Str(<<tok>>)

\* the css step of srcDoc
InjectCss(html, css) ==
  IF Truthy(css) /\ ~HtmlIncludes(html, "<style>")
    THEN IF html.t # "string" THEN TypeError
         ELSE Str(Replace(html.s, "</head>",
                          <<"<style>">> \o JsToString(css) \o <<"</style>", "</head>">>))
    ELSE html

\* the javascript step of srcDoc
InjectJs(html, js) ==
  IF html = TypeError THEN TypeError
  ELSE IF Truthy(js) /\ ~HtmlIncludes(html, "<script>")
    THEN IF html.t # "string" THEN TypeError
         ELSE Str(Replace(html.s, "</body>",
                          <<"<script>">> \o JsToString(js) \o <<"</script>", "</body>">>))
    ELSE html

\* srcDoc: the document handed to the preview panel
srcDoc(code) ==
  IF code.html.t \notin {"string", "array"} THEN TypeError
  ELSE IF HtmlIncludes(code.html, HtmlPlaceholder) THEN Str(<<>>)
  ELSE InjectJs(InjectCss(code.html, code.css), code.javascript)

\* PreviewPanel: defaultHtml, the static page that says "미리 보기"
defaultHtml == <<"<!DOCTYPE html>", "<html lang=\"en\">", "preview-placeholder", "</html>">>

\* PreviewPanel: finalSrcDoc = srcDoc.includes(placeholder) ? defaultHtml
\* : srcDoc, the srcDoc attribute of the iframe; the panel is always
\* rendered, shown or slid out of view
finalSrcDoc(doc) ==
  IF doc = TypeError THEN TypeError
  ELSE IF HtmlIncludes(doc, HtmlPlaceholder) THEN Str(defaultHtml)
  ELSE doc

----------------------------------------------------------------------------
(* Components and graph nodes.                                             *)

Null == "null"
NoProperties == <<>>

\* text?: string and a property that may be absent are <<>> (absent) or
\* <<value>> (present)
Absent == <<>>
Present(v) == <<v>>

\* a || b on a number: 0 is falsy
NumberOr(n, d) == IF n # 0 THEN n ELSE d

\* a || b on an optional string: absent and "" are falsy
TextOr(opt, d) == IF opt # Absent /\ opt[1] # "" THEN opt[1] ELSE d

\* a || b on an optional map: a map is an object, so truthy when present
MapOr(opt, d) == IF opt # Absent THEN opt[1] ELSE d

\* variant: width and height exchanged in the style of the node
componentToNodeSwapped(comp) ==
  [id |-> comp.id,
   type |-> comp.type,
   position |-> comp.position,
   data |-> [text |-> comp.text, properties |-> comp.properties],
   style |-> [width |-> comp.size.height, height |-> comp.size.width],
   selected |-> FALSE]

\* componentToNode; the data field is the component itself (...comp) with
\* the two callbacks and isSelected: false, which are the same for every
\* node and are left out
componentToNode(comp) ==
  [id |-> comp.id,
   type |-> comp.type,
   position |-> comp.position,
   data |-> [text |-> comp.text, properties |-> comp.properties],
   style |-> [width |-> comp.size.width, height |-> comp.size.height],
   selected |-> FALSE]

\* nodeToComponent; a node always has a position and a style here
nodeToComponent(node) ==
  [id |-> node.id,
   type |-> node.type,
   position |-> node.position,
   size |-> [width |-> NumberOr(node.style.width, 150),
             height |-> NumberOr(node.style.height, 50)],
   properties |-> Present(MapOr(node.data.properties, NoProperties)),
   text |-> Present(TextOr(node.data.text, ""))]

\* variant: the number of edges counted into the canvas
wireframeDataEdges(nds) ==
  [components |-> MapSeq(nds, nodeToComponent),
   canvas |-> [width |-> 1200 + Len(edges), height |-> 800]]

\* wireframeData = useMemo(() => ({components: nodes.map(nodeToComponent),
\* canvas: {width: 1200, height: 800}}))
wireframeData(nds) ==
  [components |-> MapSeq(nds, nodeToComponent),
   canvas |-> [width |-> 1200, height |-> 800]]

StringifyComponent(c) ==
  <<"{", Q, "id", Q, ":">> \o StringifyString(<<c.id>>)
  \o <<",", Q, "type", Q, ":">> \o StringifyString(<<c.type>>)
  \o <<",", Q, "position", Q, ":", "{", Q, "x", Q, ":", ToString(c.position.x),
       ",", Q, "y", Q, ":", ToString(c.position.y), "}">>
  \o <<",", Q, "size", Q, ":", "{", Q, "width", Q, ":", ToString(c.size.width),
       ",", Q, "height", Q, ":", ToString(c.size.height), "}">>
  \o (IF c.properties = Absent THEN <<>>
      ELSE <<",", Q, "properties", Q, ":", "{", "}">>)
  \o (IF c.text = Absent THEN <<>>
      ELSE <<",", Q, "text", Q, ":">> \o StringifyString(c.text))
  \o <<"}">>

\* JSON.stringify(wireframeData); a key whose value is undefined is left out
JSONStringify(wf) ==
  <<"{", Q, "components", Q, ":", "[">>
  \o Join(MapSeq(wf.components, StringifyComponent), <<",">>)
  \o <<"]", ",", Q, "canvas", Q, ":", "{", Q, "width", Q, ":", ToString(wf.canvas.width),
       ",", Q, "height", Q, ":", ToString(wf.canvas.height), "}", "}">>

----------------------------------------------------------------------------
(* The prompt and the request.                                             *)

TextPromptHead == "Create a complete webpage based on the following request: "
TextPromptTail == ". Please provide the response as a single JSON object with three keys: \"html\", \"css\", and \"javascript\". The HTML should be a full document structure including <!DOCTYPE html>, <html>, <head>, and <body> tags. The CSS should be modern and clean. The JavaScript code should be placed inside the script tag. IMPORTANT: Respond ONLY with valid JSON, no additional text or explanations."
WirePromptHead == "Create a complete webpage based on the following wireframe data: "
WirePromptTail == ". Please provide the response as a single JSON object with three keys: \"html\", \"css\", and \"javascript\". The HTML should be a full document structure including <!DOCTYPE html>, <html>, <head>, and <body> tags. IMPORTANT: Respond ONLY with valid JSON, no additional text or explanations."

\* const prompt = mode === "text" ? `...${textInput}...`
\*                                : `...${JSON.stringify(wireframeData)}...`
BuildPrompt(m, text, wf) ==
  IF m = "text"
    THEN <<TextPromptHead, Q>> \o text \o <<Q, TextPromptTail>>
    ELSE <<WirePromptHead>> \o JSONStringify(wf) \o <<WirePromptTail>>

\* the call anthropic.messages.create({model, max_tokens, messages})
Request(prompt) ==
  [model |-> "claude-3-5-sonnet-20241022", max_tokens |-> 4000, prompt |-> prompt]

----------------------------------------------------------------------------
(* The response and its extraction (handleGenerate after the await).       *)

\* what the awaited call gives: it is rejected (the promise throws), or it
\* resolves with a first content block of some type
Rejected == [kind |-> "rejected", type |-> "", text |-> <<>>]
Block(type, text) == [kind |-> "resolved", type |-> type, text |-> text]

\* response.content[0].type === "text" ? response.content[0].text : ""
ResponseText(response) ==
  IF response.type = "text" THEN response.text ELSE <<>>

\* variant: the lazy expression /\{[\s\S]*?\}/, from the first "{" to the
\* first "}" after it
RegexMatchLazy(text) ==
  LET opens == {i \in DOMAIN text : text[i] = "{"}
      closes == {j \in DOMAIN text : text[j] = "}" /\ opens # {} /\ j > Min(opens)}
  IN  IF closes = {} THEN [found |-> FALSE, text |-> <<>>]
      ELSE [found |-> TRUE, text |-> SubSeq(text, Min(opens), Min(closes))]

\* responseText.match(/\{[\s\S]*\}/): from the first "{" to the last "}"
\* after it; null when there is no such pair
RegexMatch(text) ==
  LET opens == {i \in DOMAIN text : text[i] = "{"}
      closes == {j \in DOMAIN text : text[j] = "}" /\ opens # {} /\ j > Min(opens)}
  IN  IF closes = {} THEN [found |-> FALSE, text |-> <<>>]
      ELSE [found |-> TRUE, text |-> SubSeq(text, Min(opens), Max(closes))]

\* the inner try block: the brace match is parsed when there is one, the
\* whole text otherwise
ParseResponse(text) ==
  LET jsonMatch == RegexMatch(text)
  IN  IF jsonMatch.found THEN JSONParse(jsonMatch.text) ELSE JSONParse(text)

\* !parsedCode.html && !parsedCode.css && !parsedCode.javascript
MissingFields(parsedCode) ==
  /\ ~Truthy(Member(parsedCode, <<"html">>))
  /\ ~Truthy(Member(parsedCode, <<"css">>))
  /\ ~Truthy(Member(parsedCode, <<"javascript">>))

\* variant: the parsed values are stored as they are, without || ""
ExtractedCodeRaw(parsedCode) ==
  [html |-> Member(parsedCode, <<"html">>),
   css |-> Member(parsedCode, <<"css">>),
   javascript |-> Member(parsedCode, <<"javascript">>)]

\* the argument of setGeneratedCode
ExtractedCode(parsedCode) ==
  [html |-> OrElse(Member(parsedCode, <<"html">>), Str(<<>>)),
   css |-> OrElse(Member(parsedCode, <<"css">>), Str(<<>>)),
   javascript |-> OrElse(Member(parsedCode, <<"javascript">>), Str(<<>>))]

ToastLoading == "Generating code..."
ToastSuccess == "Code generated successfully!"
ErrRemote == "Error: the remote call failed"
ErrNoText == "Error: No response text received from Claude"
ErrParse == "Error: Failed to parse Claude response as JSON. Please try again."
ErrMissing == "Error: Generated code is missing required fields (html, css, javascript)"
ErrNullRead == "Error: Cannot read properties of null (reading 'html')"
ErrorToasts == {ErrRemote, ErrNoText, ErrParse, ErrMissing, ErrNullRead}

NoCode == [html |-> Undefined, css |-> Undefined, javascript |-> Undefined]
Thrown(message) == [error |-> message, code |-> NoCode]

\* the try block after the await: the error it throws, or the code it sets
Outcome(response) ==
  IF response.kind = "rejected" THEN Thrown(ErrRemote)
  ELSE LET responseText == ResponseText(response)
       IN  IF responseText = <<>> THEN Thrown(ErrNoText)
           ELSE LET parsed == ParseResponse(responseText)
                IN  IF ~parsed.ok THEN Thrown(ErrParse)
                    ELSE IF parsed.val.t = "null" THEN Thrown(ErrNullRead)
                    ELSE IF MissingFields(parsed.val) THEN Thrown(ErrMissing)
                    ELSE [error |-> "", code |-> ExtractedCode(parsed.val)]

\* variant: a catch block that puts the placeholders back
CodeAfterReset(code, outcome) ==
  IF outcome.error = "" THEN outcome.code ELSE InitialCode

\* generatedCode after the try / catch: set on success, left alone by catch
CodeAfter(code, outcome) ==
  IF outcome.error = "" THEN outcome.code ELSE code

\* the toast after the try / catch
ToastAfter(outcome) ==
  IF outcome.error = "" THEN ToastSuccess ELSE outcome.error

\* variant: setIsLoading(false) at the end of the try block, no finally
LoadingAfterTry(outcome) == outcome.error # ""

\* finally { setIsLoading(false) }
LoadingAfter(outcome) == FALSE

\* the order of the awaited calls: when the i-th call ends with success and
\* sets the code, every call started before it and still awaited has been
\* overtaken; the flag of the call that ended is dropped
OvertakenAfter(flags, i, outcome) ==
  LET marked == [k \in DOMAIN flags |-> flags[k] \/ (outcome.error = "" /\ k < i)]
  IN  SubSeq(marked, 1, i - 1) \o SubSeq(marked, i + 1, Len(marked))

----------------------------------------------------------------------------
(* Inputs of the model.                                                    *)

\* member "key": "value" of a JSON object text
Pair(key, value) == <<Q, key, Q, ":", Q>> \o value \o <<Q>>

HiHtml == <<"<button>Hi</button>">>
HiCss == <<"button", "{", "color:red", "}">>
PageHtml == <<"<html>", "<head>", "</head>", "<body>", "<p>x</p>", "</body>", "</html>">>
PageJs == <<"go()">>

\* {"html":"<button>Hi</button>","css":"button{color:red}","javascript":""}
TextHi ==
  <<"{">> \o Pair("html", HiHtml) \o <<",">> \o Pair("css", HiCss)
  \o <<",">> \o Pair("javascript", <<>>) \o <<"}">>

\* a full document with css and javascript, in prose and white space
TextPage ==
  <<"Here you go:", "\n", "{">> \o Pair("html", PageHtml) \o <<",">>
  \o Pair("css", HiCss) \o <<",">> \o Pair("javascript", PageJs)
  \o <<"}", "\n", "Enjoy!">>

\* {"html":"<p>x</p>","css":"","javascript":""}
ObjX ==
  <<"{">> \o Pair("html", <<"<p>x</p>">>) \o <<",">> \o Pair("css", <<>>)
  \o <<",">> \o Pair("javascript", <<>>) \o <<"}">>
\* a full document with css and javascript
ObjPage ==
  <<"{">> \o Pair("html", PageHtml) \o <<",">> \o Pair("css", HiCss)
  \o <<",">> \o Pair("javascript", PageJs) \o <<"}">>
\* {"html":"<p>x</p>","css":null}: one key null, one missing
TextPartial ==
  <<"{">> \o Pair("html", <<"<p>x</p>">>) \o <<",", Q, "css", Q, ":", "null", "}">>

\* {"css":123,"javascript":"go()"}: a number for css, no html
TextNumber ==
  <<"{", Q, "css", Q, ":", "123", ",">> \o Pair("javascript", PageJs) \o <<"}">>

\* prose only
TextProse == <<"Sorry, I cannot help with that.">>

\* {"html": without its end
TextBroken == <<"{", Q, "html", Q, ":">>

\* {"html":"","note":"nothing"}: no key is non-empty
TextEmpty ==
  <<"{">> \o Pair("html", <<>>) \o <<",">> \o Pair("note", <<"nothing">>) \o <<"}">>

\* null
TextNull == <<"null">>

Responses ==
  {Rejected, Block("tool_use", <<>>)}
  \cup {Block("text", t) : t \in {TextHi, TextPage, TextPartial, TextNumber,
                                  TextProse, TextBroken, TextEmpty, TextNull}}

\* what the user types as the description
TextInputs == {<<>>, <<"a button that says Hi">>}

\* what the user types into the code editor; the editor reports an emptied
\* buffer as undefined or ""
EditorValues == {<<>>, <<"<h1>", "mine", "</h1>">>}

CodeTabs == {"html", "css", "javascript"}

Modes == {"text", "wireframe"}

----------------------------------------------------------------------------
(* The state after construction.                                           *)

Idle == [pc |-> "idle", input |-> <<>>, nodes |-> <<>>, output |-> <<>>]

Init ==
  /\ mode = "text"
  /\ textInput = <<>>
  /\ generatedCode = InitialCode
  /\ isLoading = FALSE
  /\ activeCodeTab = "html"
  /\ selectedComponent = Null
  /\ nodes = <<>>
  /\ edges = <<>>
  /\ components = <<>>
  /\ timer = FALSE
  /\ inflight = <<>>
  /\ overtaken = <<>>
  /\ toast = ""
  /\ rt = Idle

----------------------------------------------------------------------------
(* The session: mode, description, generation, code editor.                *)

\* Header: onClick={() => setMode(m)}
SetMode(m) ==
  /\ mode' = m
  /\ UNCHANGED <<textInput, generatedCode, isLoading, activeCodeTab,
                 selectedComponent, nodes, components, timer, inflight, toast, rt, edges, overtaken>>

\* InputPanel: the textarea is rendered in text mode only;
\* onChange={(e) => setTextInput(e.target.value)}
SetTextInput(text) ==
  /\ mode = "text"
  /\ textInput' = text
  /\ UNCHANGED <<mode, generatedCode, isLoading, activeCodeTab,
                 selectedComponent, nodes, components, timer, inflight, toast, rt, edges, overtaken>>

\* variant: a handler memoised without its dependencies, which keeps the
\* description and the graph of the first render
StartGenerateStale(wf) ==
  /\ isLoading' = TRUE
  /\ toast' = ToastLoading
  /\ inflight' = Append(inflight, Request(BuildPrompt(mode, <<>>, wireframeData(<<>>))))
  /\ overtaken' = Append(overtaken, FALSE)
  /\ UNCHANGED <<mode, textInput, generatedCode, activeCodeTab,
                 selectedComponent, nodes, components, timer, rt, edges>>

\* handleGenerate up to the await: setIsLoading(true), toast.loading, the
\* prompt built from this render's mode, textInput and wireframeData, the
\* request sent
StartGenerate(wf) ==
  /\ isLoading' = TRUE
  /\ toast' = ToastLoading
  /\ inflight' = Append(inflight, Request(BuildPrompt(mode, textInput, wf)))
  /\ overtaken' = Append(overtaken, FALSE)
  /\ UNCHANGED <<mode, textInput, generatedCode, activeCodeTab,
                 selectedComponent, nodes, components, timer, rt, edges>>

\* the Generate Code button: disabled={isLoading}, onClick={handleGenerate}
HandleGenerate ==
  /\ ~isLoading
  /\ StartGenerate(wireframeData(nodes))

\* handleGenerate after the await, for the i-th call awaited: the try block,
\* catch and finally run without interruption and their state updates are
\* rendered together
Complete(i, response) ==
  /\ i \in DOMAIN inflight
  /\ LET outcome == Outcome(response)
     IN  /\ generatedCode' = CodeAfter(generatedCode, outcome)
         /\ toast' = ToastAfter(outcome)
         /\ isLoading' = LoadingAfter(outcome)
         /\ overtaken' = OvertakenAfter(overtaken, i, outcome)
  /\ inflight' = SubSeq(inflight, 1, i - 1) \o SubSeq(inflight, i + 1, Len(inflight))
  /\ UNCHANGED <<mode, textInput, activeCodeTab, selectedComponent, nodes,
                 components, timer, rt, edges>>

\* some awaited call ends with one of the responses
Completion(responses) ==
  \E i \in DOMAIN inflight : \E response \in responses : Complete(i, response)

\* CodeEditorPanel: onClick={() => setActiveTab(tab)}
SetActiveTab(tab) ==
  /\ activeCodeTab' = tab
  /\ UNCHANGED <<mode, textInput, generatedCode, isLoading, selectedComponent,
                 nodes, components, timer, inflight, toast, rt, edges, overtaken>>

\* CodeEditorPanel.handleCodeChange: setCode({...code, [activeTab]: value || ""})
HandleCodeChange(value) ==
  /\ generatedCode' = [generatedCode EXCEPT ![activeCodeTab] = Str(value)]
  /\ UNCHANGED <<mode, textInput, isLoading, activeCodeTab, selectedComponent,
                 nodes, components, timer, inflight, toast, rt, edges, overtaken>>

Next ==
  \/ \E m \in Modes : SetMode(m)
  \/ \E text \in TextInputs : SetTextInput(text)
  \/ HandleGenerate
  \/ Completion(Responses)
  \/ \E tab \in CodeTabs : SetActiveTab(tab)
  \/ \E value \in EditorValues : HandleCodeChange(value)

Spec == Init /\ [][Next]_vars

\* the awaited call eventually resolves or is rejected
FairSpec == Spec /\ WF_vars(Completion(Responses))

----------------------------------------------------------------------------
(* The graph surface: palette, canvas, nodes, properties panel.            *)

\* ComponentPalette: the names of the palette, lower-cased by onDragStart
PaletteTypes == {"header", "button", "input", "text", "image", "card"}

getComponentSize(type) ==
  CASE type = "header" -> [width |-> 300, height |-> 60]
    [] type = "button" -> [width |-> 120, height |-> 40]
    [] type = "input"  -> [width |-> 200, height |-> 40]
    [] type = "text"   -> [width |-> 250, height |-> 80]
    [] type = "image"  -> [width |-> 150, height |-> 100]
    [] type = "card"   -> [width |-> 200, height |-> 120]
    [] OTHER           -> [width |-> 150, height |-> 50]

getComponentText(type) ==
  CASE type = "header" -> "Header"
    [] type = "button" -> "Button"
    [] type = "input"  -> "Input"
    [] type = "text"   -> "Text"
    [] type = "image"  -> "Image"
    [] type = "card"   -> "Card"
    [] OTHER           -> "Component"

\* {isLoading && <div className="absolute inset-0 ... z-50">}: while a
\* generation is awaited an overlay covers the whole application and takes
\* every pointer event; what is done with the keyboard stays possible
OverlayShown == isLoading

\* id: `${type}-${Date.now()}`
NodeId(type, now) == type \o "-" \o ToString(now)

\* onDrop: the canvas is rendered in wireframe mode only, and a palette item
\* is dragged with the pointer; now is the reading of Date.now(), point the
\* drop point relative to the canvas
OnDrop(type, now, point) ==
  /\ mode = "wireframe"
  /\ ~OverlayShown
  /\ Len(nodes) < MaxNodes
  /\ nodes' = Append(nodes,
       [id |-> NodeId(type, now),
        type |-> type,
        position |-> point,
        data |-> [text |-> Present(getComponentText(type)),
                  properties |-> Present(NoProperties)],
        style |-> getComponentSize(type),
        selected |-> FALSE])
  /\ UNCHANGED <<mode, textInput, generatedCode, isLoading, activeCodeTab,
                 selectedComponent, components, timer, inflight, toast, rt, edges, overtaken>>

\* handleDeleteComponent, called by the delete button of a node, which
\* CustomNode renders while the node is selected
HandleDeleteComponent(componentId) ==
  /\ mode = "wireframe"
  /\ \E i \in DOMAIN nodes : nodes[i].id = componentId /\ nodes[i].selected
  /\ nodes' = SelectSeq(nodes, LAMBDA node : node.id # componentId)
  /\ selectedComponent' = Null
  /\ UNCHANGED <<mode, textInput, generatedCode, isLoading, activeCodeTab,
                 components, timer, inflight, toast, rt, edges, overtaken>>

\* handleSelectComponent, called by a click of the pointer on a node
HandleSelectComponent(componentId) ==
  /\ mode = "wireframe"
  /\ ~OverlayShown
  /\ \E i \in DOMAIN nodes : nodes[i].id = componentId
  /\ selectedComponent' = componentId
  /\ nodes' = MapSeq(nodes, LAMBDA node :
                 IF node.id = componentId
                   THEN [node EXCEPT !.selected = TRUE]
                   ELSE [node EXCEPT !.selected = FALSE])
  /\ UNCHANGED <<mode, textInput, generatedCode, isLoading, activeCodeTab,
                 components, timer, inflight, toast, rt, edges, overtaken>>

\* onNodesChange of useNodesState applies a change of the graph surface to
\* every node of the change's id: a drag gives a position, a key press or a
\* selection box a selected flag, the delete key a removal
ApplyNodeChange(nds, change) ==
  CASE change.type = "position" ->
         MapSeq(nds, LAMBDA node :
            IF node.id = change.id THEN [node EXCEPT !.position = change.position]
            ELSE node)
    [] change.type = "select" ->
         MapSeq(nds, LAMBDA node :
            IF node.id = change.id THEN [node EXCEPT !.selected = change.selected]
            ELSE node)
    [] change.type = "remove" ->
         SelectSeq(nds, LAMBDA node : node.id # change.id)

PositionChange(id, point) ==
  [type |-> "position", id |-> id, position |-> point, selected |-> FALSE]
SelectChange(id, flag) ==
  [type |-> "select", id |-> id, position |-> [x |-> 0, y |-> 0], selected |-> flag]
RemoveChange(id) ==
  [type |-> "remove", id |-> id, position |-> [x |-> 0, y |-> 0], selected |-> FALSE]

OnNodesChange(change) ==
  /\ mode = "wireframe"
  /\ \E i \in DOMAIN nodes : nodes[i].id = change.id
  /\ nodes' = ApplyNodeChange(nodes, change)
  /\ UNCHANGED <<mode, textInput, generatedCode, isLoading, activeCodeTab,
                 selectedComponent, components, timer, inflight, toast, rt, edges, overtaken>>

\* wireframeData.components.find((c) => c.id === selectedComponent)
FindComponent(nds, id) ==
  LET comps == wireframeData(nds).components
  IN  comps[Min({i \in DOMAIN comps : comps[i].id = id})]

\* onUpdate of the properties panel, rendered while a component is selected
OnUpdate(updatedComponent) ==
  /\ mode = "wireframe"
  /\ selectedComponent # Null
  /\ nodes' = MapSeq(nodes, LAMBDA node :
                 IF node.id = selectedComponent
                   THEN [node EXCEPT
                           !.data = [text |-> updatedComponent.text,
                                     properties |-> updatedComponent.properties],
                           !.position = updatedComponent.position,
                           !.style = updatedComponent.size]
                   ELSE node)
  /\ UNCHANGED <<mode, textInput, generatedCode, isLoading, activeCodeTab,
                 selectedComponent, components, timer, inflight, toast, rt, edges, overtaken>>

\* the panel shows the component found for the selection pointer
PanelShown ==
  /\ mode = "wireframe"
  /\ selectedComponent # Null
  /\ \E i \in DOMAIN nodes : nodes[i].id = selectedComponent

\* ComponentPropertiesPanel.handleTextChange
HandleTextChange(text) ==
  /\ PanelShown
  /\ OnUpdate([FindComponent(nodes, selectedComponent) EXCEPT !.text = Present(text)])

\* ComponentPropertiesPanel.handleSizeChange from the width input:
\* width: parseInt(e.target.value) || 0
HandleWidthChange(width) ==
  /\ PanelShown
  /\ OnUpdate([FindComponent(nodes, selectedComponent) EXCEPT !.size.width = width])

\* ComponentPropertiesPanel.handleSizeChange from the height input
HandleHeightChange(height) ==
  /\ PanelShown
  /\ OnUpdate([FindComponent(nodes, selectedComponent) EXCEPT !.size.height = height])

\* the Position X input: x: parseInt(e.target.value) || 0
HandleXChange(x) ==
  /\ PanelShown
  /\ OnUpdate([FindComponent(nodes, selectedComponent) EXCEPT !.position.x = x])

\* the Position Y input
HandleYChange(y) ==
  /\ PanelShown
  /\ OnUpdate([FindComponent(nodes, selectedComponent) EXCEPT !.position.y = y])

\* onClose of the properties panel: setSelectedComponent(null)
OnClose ==
  /\ PanelShown
  /\ selectedComponent' = Null
  /\ UNCHANGED <<mode, textInput, generatedCode, isLoading, activeCodeTab,
                 nodes, components, timer, inflight, toast, rt, edges, overtaken>>

\* the ids on the canvas
NodeIds == {nodes[i].id : i \in DOMAIN nodes}

\* inputs of the graph surface
DropTypes == {"button", "card"}
ClockReadings == {1000, 1001}
DropPoints == {[x |-> 10, y |-> 20]}
DragPoints == {[x |-> -5, y |-> 20]}
PanelTexts == {"Buy"}

NextGraph ==
  \/ \E m \in Modes : SetMode(m)
  \/ \E type \in DropTypes : \E now \in ClockReadings : \E point \in DropPoints :
       OnDrop(type, now, point)
  \/ \E id \in NodeIds : HandleSelectComponent(id)
  \/ \E id \in NodeIds : HandleDeleteComponent(id)
  \/ \E id \in NodeIds : \E point \in DragPoints : OnNodesChange(PositionChange(id, point))
  \/ \E id \in NodeIds : \E flag \in BOOLEAN : OnNodesChange(SelectChange(id, flag))
  \/ \E id \in NodeIds : OnNodesChange(RemoveChange(id))
  \/ \E text \in PanelTexts : HandleTextChange(text)
  \/ OnClose

\* the graph surface alone
SpecGraph == Init /\ [][NextGraph]_vars

\* generation in wireframe mode: the session with a small graph surface
WireTypes == {"button"}
WireResponses == {Rejected, Block("text", TextHi)}

NextWire ==
  \/ \E m \in Modes : SetMode(m)
  \/ \E text \in TextInputs : SetTextInput(text)
  \/ HandleGenerate
  \/ Completion(WireResponses)
  \/ \E type \in WireTypes : \E now \in ClockReadings : \E point \in DropPoints :
       OnDrop(type, now, point)
  \/ \E id \in NodeIds : HandleSelectComponent(id)
  \/ \E id \in NodeIds : HandleDeleteComponent(id)

SpecWire == Init /\ [][NextWire]_vars

----------------------------------------------------------------------------
(* The extraction of the response text, with more kinds of response.       *)

WrappedObjects == {ObjX, TextHi, ObjPage}

\* prose and fencing without braces, before and after the object
Prefixes == {<<"Here you go:", "\n">>, <<"~~~json", "\n">>}
Suffixes == {<<>>, <<"\n", "Enjoy!">>, <<"\n", "~~~">>}
Wrap(prefix, obj, suffix) == prefix \o obj \o suffix
WrappedTexts ==
  {Wrap(prefix, obj, suffix) :
     prefix \in Prefixes, obj \in WrappedObjects, suffix \in Suffixes}

\* 123
TextNumeral == <<"123">>
\* [{"html":"<p>x</p>"}]
TextArray == <<"[", "{">> \o Pair("html", <<"<p>x</p>">>) \o <<"}", "]">>
\* "use {x}": a JSON string with braces in it
TextQuoted == <<Q, "use ", "{", "x", "}", Q>>

ExtractResponses ==
  {Rejected, Block("tool_use", <<>>)}
  \cup {Block("text", t) : t \in WrappedTexts}
  \cup {Block("text", t) : t \in {TextPartial, TextProse, TextBroken, TextEmpty,
                                  TextNull, TextNumeral, TextArray, TextQuoted}}

NextExtract ==
  \/ \E m \in Modes : SetMode(m)
  \/ \E text \in TextInputs : SetTextInput(text)
  \/ HandleGenerate
  \/ Completion(ExtractResponses)

SpecExtract == Init /\ [][NextExtract]_vars

----------------------------------------------------------------------------
(* The code editor alone: hand edits of the three artifacts.               *)

\* cost = '$' + n: the apostrophe after the dollar sign makes the pair $'
DollarJs == <<"cost = '", "$'", " + n">>
\* a::after{content:"$&"}
DollarCss == <<"a::after", "{", "content:", Q, "$&", Q, "}">>

\* a page with its own <style> block
OwnStyleHtml ==
  <<"<html>", "<head>", "<style>", "p{}", "</style>", "</head>",
    "<body>", "<p>x</p>", "</body>", "</html>">>
\* a page whose style block has an attribute: <style media="screen">
AttrStyleHtml ==
  <<"<html>", "<head>", "<style media=\"screen\">", "p{}", "</style>", "</head>",
    "<body>", "<p>x</p>", "</body>", "</html>">>
\* a page that loads its own script: <script src="app.js"></script>
OwnScriptHtml ==
  <<"<html>", "<head>", "</head>", "<body>", "<p>x</p>",
    "<script src=\"app.js\">", "</script>", "</body>", "</html>">>

\* what the user types into the editor of each tab
TabValues(tab) ==
  CASE tab = "html" -> {<<>>, PageHtml, OwnStyleHtml, AttrStyleHtml, OwnScriptHtml}
    [] tab = "css" -> {<<>>, HiCss, DollarCss}
    [] tab = "javascript" -> {<<>>, PageJs, DollarJs}

NextEditor ==
  \/ \E tab \in CodeTabs : SetActiveTab(tab)
  \/ \E value \in TabValues(activeCodeTab) : HandleCodeChange(value)

SpecEditor == Init /\ [][NextEditor]_vars

----------------------------------------------------------------------------
(* Edges of the graph.                                                     *)

\* addEdge(connection, eds): the edges with the connection added, unless it
\* is there already
addEdge(connection, eds) ==
  IF \E i \in DOMAIN eds : eds[i] = connection THEN eds ELSE Append(eds, connection)

\* onConnect: setEdges((eds) => addEdge(connection, eds)), called by the
\* graph surface when the pointer draws a connection between two nodes.
\* The canvas of this build passes nodesConnectable={false}; the handler is
\* modelled for every connection the surface could report
OnConnect(connection) ==
  /\ mode = "wireframe"
  /\ ~OverlayShown
  /\ Len(edges) < MaxEdges
  /\ connection.source \in NodeIds
  /\ connection.target \in NodeIds
  /\ edges' = addEdge(connection, edges)
  /\ UNCHANGED <<mode, textInput, generatedCode, isLoading, activeCodeTab,
                 selectedComponent, nodes, components, timer, inflight, toast, rt, overtaken>>

\* onEdgesChange of useEdgesState with the removal of the i-th edge (the
\* delete key on an edge)
OnEdgesChange(i) ==
  /\ mode = "wireframe"
  /\ i \in DOMAIN edges
  /\ edges' = SubSeq(edges, 1, i - 1) \o SubSeq(edges, i + 1, Len(edges))
  /\ UNCHANGED <<mode, textInput, generatedCode, isLoading, activeCodeTab,
                 selectedComponent, nodes, components, timer, inflight, toast, rt, overtaken>>

\* the delete key of the graph surface on a selected node: the surface
\* reports the removal of the edges connected to the node to onEdgesChange
\* and the removal of the node to onNodesChange, in one event
DeleteKey(id) ==
  /\ mode = "wireframe"
  /\ \E i \in DOMAIN nodes : nodes[i].id = id /\ nodes[i].selected
  /\ nodes' = ApplyNodeChange(nodes, RemoveChange(id))
  /\ edges' = SelectSeq(edges, LAMBDA e : e.source # id /\ e.target # id)
  /\ UNCHANGED <<mode, textInput, generatedCode, isLoading, activeCodeTab,
                 selectedComponent, components, timer, inflight, toast, rt, overtaken>>

Connections == {[source |-> a, target |-> b] : a \in NodeIds, b \in NodeIds}

NextEdges ==
  \/ \E m \in Modes : SetMode(m)
  \/ HandleGenerate
  \/ Completion({Rejected})
  \/ \E type \in WireTypes : \E now \in ClockReadings : \E point \in DropPoints :
       OnDrop(type, now, point)
  \/ \E id \in NodeIds : HandleSelectComponent(id)
  \/ \E id \in NodeIds : HandleDeleteComponent(id)
  \/ \E id \in NodeIds : DeleteKey(id)
  \/ \E connection \in Connections : OnConnect(connection)
  \/ \E i \in DOMAIN edges : OnEdgesChange(i)

\* generation with a graph that has edges
SpecEdges == Init /\ [][NextEdges]_vars

----------------------------------------------------------------------------
(* The variant with the debounced text input (drag-and-drop canvas).        *)

DndTextPromptTail == ". Please provide the response as a single JSON object with three keys: \"html\", \"css\", and \"javascript\". The HTML should be a full document structure including <!DOCTYPE html>, <html>, <head>, and <body> tags. The CSS should be modern and clean. The JavaScript code should be placed inside the script tag."
DndWirePromptTail == ". Please provide the response as a single JSON object with three keys: \"html\", \"css\", and \"javascript\". The HTML should be a full document structure including <!DOCTYPE html>, <html>, <head>, and <body> tags."

\* wireframeData of this variant is state: the components and the canvas
DndWireframeData(comps) ==
  [components |-> comps, canvas |-> [width |-> 1200, height |-> 800]]

DndBuildPrompt(m, text, wf) ==
  IF m = "text"
    THEN <<TextPromptHead, Q>> \o text \o <<Q, DndTextPromptTail>>
    ELSE <<WirePromptHead>> \o JSONStringify(wf) \o <<DndWirePromptTail>>

DndRequest(prompt) ==
  [model |-> "claude-3-5-sonnet-20240620", max_tokens |-> 4000, prompt |-> prompt]

ErrSyntax == "Error: the response text is not valid JSON"

\* response.content[0].text parsed by JSON.parse as a whole; a block that is
\* not a text block has no text, and JSON.parse(undefined) throws as well
DndOutcome(response) ==
  IF response.kind = "rejected" THEN Thrown(ErrRemote)
  ELSE IF response.type # "text" THEN Thrown(ErrSyntax)
  ELSE LET parsed == JSONParse(response.text)
       IN  IF ~parsed.ok THEN Thrown(ErrSyntax)
           ELSE IF parsed.val.t = "null" THEN Thrown(ErrNullRead)
           ELSE [error |-> "", code |-> ExtractedCode(parsed.val)]

\* srcDoc of this variant: generatedCode.html.replace('</head>', ...)
\* .replace('</body>', ...), without a test of the placeholder or of blocks
\* that are there already
DndSrcDoc(code) ==
  IF code.html.t # "string" THEN TypeError
  ELSE Str(Replace(Replace(code.html.s, "</head>",
                           <<"<style>">> \o JsToString(code.css)
                           \o <<"</style>", "</head>">>),
                   "</body>",
                   <<"<script>">> \o JsToString(code.javascript)
                   \o <<"</script>", "</body>">>))

\* the effect [textInput, mode, handleGenerate]: it runs again when one of
\* mode, textInput, wireframeData has changed; its cleanup clears the timer,
\* and a new timer is set in text mode with a description that is not blank
DebounceArmed(m, text) == m = "text" /\ Trim(text) # <<>>

DndSetMode(m) ==
  /\ mode' = m
  /\ timer' = IF m = mode THEN timer ELSE DebounceArmed(m, textInput)
  /\ UNCHANGED <<textInput, generatedCode, isLoading, activeCodeTab,
                 selectedComponent, nodes, components, inflight, toast, rt, edges, overtaken>>

DndSetTextInput(text) ==
  /\ mode = "text"
  /\ textInput' = text
  /\ timer' = IF text = textInput THEN timer ELSE DebounceArmed(mode, text)
  /\ UNCHANGED <<mode, generatedCode, isLoading, activeCodeTab,
                 selectedComponent, nodes, components, inflight, toast, rt, edges, overtaken>>

\* handleGenerate of this variant up to the await
DndStartGenerate ==
  /\ Len(inflight) < MaxInFlight
  /\ isLoading' = TRUE
  /\ toast' = ToastLoading
  /\ inflight' = Append(inflight,
       DndRequest(DndBuildPrompt(mode, textInput, DndWireframeData(components))))
  /\ overtaken' = Append(overtaken, FALSE)
  /\ UNCHANGED <<mode, textInput, generatedCode, activeCodeTab,
                 selectedComponent, nodes, components, rt, edges>>

\* the timer of the effect fires after 1 s: setTimeout(() => handleGenerate())
TimerFire ==
  /\ timer
  /\ timer' = FALSE
  /\ DndStartGenerate

\* the button: disabled={isLoading}, onClick={handleGenerate}
DndHandleGenerate ==
  /\ ~isLoading
  /\ timer' = timer
  /\ DndStartGenerate

\* handleGenerate of this variant after the await
DndComplete(i, response) ==
  /\ i \in DOMAIN inflight
  /\ LET outcome == DndOutcome(response)
     IN  /\ generatedCode' = CodeAfter(generatedCode, outcome)
         /\ toast' = ToastAfter(outcome)
         /\ isLoading' = LoadingAfter(outcome)
         /\ overtaken' = OvertakenAfter(overtaken, i, outcome)
  /\ inflight' = SubSeq(inflight, 1, i - 1) \o SubSeq(inflight, i + 1, Len(inflight))
  /\ UNCHANGED <<mode, textInput, activeCodeTab, selectedComponent, nodes,
                 components, timer, rt, edges>>

DndCompletion(responses) ==
  \E i \in DOMAIN inflight : \E response \in responses : DndComplete(i, response)

DndTextInputs == {<<>>, <<" ">>, <<"a button">>, <<"a button", " ", "that says Hi">>}
DndResponses ==
  {Rejected, Block("tool_use", <<>>), Block("text", TextHi),
   Block("text", ObjPage), Block("text", TextProse), Block("text", TextNull)}

NextDnd ==
  \/ \E m \in Modes : DndSetMode(m)
  \/ \E text \in DndTextInputs : DndSetTextInput(text)
  \/ TimerFire
  \/ DndHandleGenerate
  \/ DndCompletion(DndResponses)

SpecDnd == Init /\ [][NextDnd]_vars

----------------------------------------------------------------------------
(* The canvas of the first application (dnd-kit): palette and handleDragEnd. *)

\* a dragged component is not moved further than this from the origin
MaxCoordinate == 40

\* ComponentPalette of this canvas: <DraggableComponent id={name}> with the
\* names as they are written
DraggableIds == {"Header", "Button", "Input", "Text", "Image", "Card"}

\* handleDragEnd over the canvas with a palette item (no initialPosition):
\* a new component with type: active.id and the default size; dropPoint is
\* the pointer position relative to the canvas with the delta added
HandleDragEndNew(activeId, now, dropPoint) ==
  /\ mode = "wireframe"
  /\ Len(components) < MaxComponents
  /\ components' = Append(components,
       [id |-> NodeId(activeId, now),
        type |-> activeId,
        position |-> dropPoint,
        size |-> [width |-> 100, height |-> 50],
        properties |-> Present(NoProperties),
        text |-> Absent])
  /\ UNCHANGED <<mode, textInput, generatedCode, isLoading, activeCodeTab,
                 selectedComponent, nodes, timer, inflight, toast, rt, edges, overtaken>>

\* handleDragEnd over the canvas with a component of the canvas
\* (initialPosition set): every component of that id is moved by the delta
HandleDragEndMove(activeId, delta) ==
  /\ mode = "wireframe"
  /\ \E i \in DOMAIN components :
        /\ components[i].id = activeId
        /\ components[i].position.x + delta.x \in -MaxCoordinate..MaxCoordinate
        /\ components[i].position.y + delta.y \in -MaxCoordinate..MaxCoordinate
  /\ components' = MapSeq(components, LAMBDA comp :
       IF comp.id = activeId
         THEN [comp EXCEPT !.position = [x |-> comp.position.x + delta.x,
                                         y |-> comp.position.y + delta.y]]
         ELSE comp)
  /\ UNCHANGED <<mode, textInput, generatedCode, isLoading, activeCodeTab,
                 selectedComponent, nodes, timer, inflight, toast, rt, edges, overtaken>>

\* inputs of this canvas
DraggedIds == {"Header", "Card"}
Deltas == {[x |-> -30, y |-> 0], [x |-> 10, y |-> 20]}

NextCanvas ==
  \/ \E m \in Modes : SetMode(m)
  \/ \E activeId \in DraggedIds : \E now \in ClockReadings : \E point \in DropPoints :
       HandleDragEndNew(activeId, now, point)
  \/ \E i \in DOMAIN components : \E delta \in Deltas :
       HandleDragEndMove(components[i].id, delta)

SpecCanvas == Init /\ [][NextCanvas]_vars

----------------------------------------------------------------------------
(* The round trip of a component collection through the graph.             *)

RtIds == {NodeId("button", 1000 + i) : i \in 1..MaxComponents}
RtKinds == {"button", "card"}
RtGeometries ==
  {[position |-> [x |-> 0, y |-> 0], size |-> [width |-> 150, height |-> 50]],
   [position |-> [x |-> 10, y |-> 20], size |-> [width |-> 1, height |-> 300]]}
RtTexts == {Absent, Present(""), Present("Hi")}
RtProperties == {Absent, Present(NoProperties)}

RtComponents ==
  {[id |-> id, type |-> kind, position |-> g.position, size |-> g.size,
    properties |-> props, text |-> text] :
     id \in RtIds, kind \in RtKinds, g \in RtGeometries,
     props \in RtProperties, text \in RtTexts}

\* the collections of the data model: ids pairwise distinct
Collections ==
  UNION {{c \in [1..n -> RtComponents] :
            \A i, j \in 1..n : (i # j) => (c[i].id # c[j].id)} : n \in 0..MaxComponents}

InitRoundTrip ==
  /\ mode = "wireframe"
  /\ textInput = <<>>
  /\ generatedCode = InitialCode
  /\ isLoading = FALSE
  /\ activeCodeTab = "html"
  /\ selectedComponent = Null
  /\ nodes = <<>>
  /\ edges = <<>>
  /\ components = <<>>
  /\ timer = FALSE
  /\ inflight = <<>>
  /\ overtaken = <<>>
  /\ toast = ""
  /\ \E c \in Collections :
        rt = [pc |-> "start", input |-> c, nodes |-> <<>>, output |-> <<>>]

\* components.map(componentToNode)
ToGraph ==
  /\ rt.pc = "start"
  /\ rt' = [rt EXCEPT !.pc = "graph", !.nodes = MapSeq(rt.input, componentToNode)]
  /\ UNCHANGED <<mode, textInput, generatedCode, isLoading, activeCodeTab,
                 selectedComponent, nodes, components, timer, inflight, toast, edges, overtaken>>

\* nodes.map(nodeToComponent)
ToComponents ==
  /\ rt.pc = "graph"
  /\ rt' = [rt EXCEPT !.pc = "done", !.output = MapSeq(rt.nodes, nodeToComponent)]
  /\ UNCHANGED <<mode, textInput, generatedCode, isLoading, activeCodeTab,
                 selectedComponent, nodes, components, timer, inflight, toast, edges, overtaken>>

NextRoundTrip == ToGraph \/ ToComponents

SpecRoundTrip == InitRoundTrip /\ [][NextRoundTrip]_vars

----------------------------------------------------------------------------
(* Properties of the generation.                                           *)

\* sub occurs in text as a run of consecutive tokens
Contains(text, sub) ==
  \E i \in 0..(Len(text) - Len(sub)) : SubSeq(text, i + 1, i + Len(sub)) = sub

\* this step is the end of a generation that received the response
Received(response) ==
  /\ Len(inflight') < Len(inflight)
  /\ \E i \in DOMAIN inflight : Complete(i, response)

\* the value parsed from a response text
Parsed(response) == ParseResponse(ResponseText(response))

\* the failures of a generation: the remote call throws, the response text
\* is empty, it cannot be parsed, or none of html, css, javascript is
\* non-empty in the parsed value
Fails(response) ==
  \/ response.kind = "rejected"
  \/ ResponseText(response) = <<>>
  \/ ~Parsed(response).ok
  \/ \A key \in CodeTabs : ~Truthy(Member(Parsed(response).val, <<key>>))

\* C2: a generation that fails (the remote call throws, the response text is
\* empty or cannot be parsed, or no artifact key is non-empty) leaves html,
\* css and javascript exactly as they were
C2_FailureKeepsArtifacts ==
  [][\A response \in Responses :
       (Received(response) /\ Fails(response)) => generatedCode' = generatedCode]_vars

\* C2 witness: a parse failure after an earlier success; the session shows
\* the error and still holds the earlier result
C2_Witness ==
  /\ toast = ErrParse
  /\ ~isLoading
  /\ generatedCode.html = Str(HiHtml)
  /\ generatedCode.css = Str(HiCss)

\* C3 as stated: on success each artifact is the parsed value of its key, or
\* the empty string when the key is missing
C3_Original ==
  [][\A response \in Responses :
       (Received(response) /\ toast' = ToastSuccess) =>
          \A key \in CodeTabs :
             generatedCode'[key] =
               IF Member(Parsed(response).val, <<key>>) = Undefined
                 THEN Str(<<>>)
                 ELSE Member(Parsed(response).val, <<key>>)]_vars

\* C3 amended: on success the three artifacts are replaced together; each is
\* the parsed value of its key when that value is truthy, and the empty
\* string when the key is missing or its value is falsy (null, false, 0, "")
C3_SuccessReplacesArtifacts ==
  [][\A response \in Responses :
       (Received(response) /\ toast' = ToastSuccess) =>
          \A key \in CodeTabs :
             generatedCode'[key] =
               IF Truthy(Member(Parsed(response).val, <<key>>))
                 THEN Member(Parsed(response).val, <<key>>)
                 ELSE Str(<<>>)]_vars

\* C3 witness: the result of {"html":"<p>x</p>","css":null} over hand-edited
\* artifacts: css (null) and javascript (missing) are empty strings
C3_Witness ==
  /\ toast = ToastSuccess
  /\ generatedCode = [html |-> Str(<<"<p>x</p>">>), css |-> Str(<<>>),
                      javascript |-> Str(<<>>)]

\* C4: a generation that has started ends with the session idle, and the
\* loading flag only rises when a call is sent and only falls when a call
\* ends in success or in failure
C4_Lifecycle ==
  /\ (isLoading ~> ~isLoading)
  /\ [][/\ (~isLoading /\ isLoading') =>
              (inflight = <<>> /\ Len(inflight') = 1 /\ toast' = ToastLoading)
        /\ (isLoading /\ ~isLoading') =>
              (Len(inflight) = 1 /\ inflight' = <<>>
               /\ toast' \in {ToastSuccess} \cup ErrorToasts)
        /\ (isLoading = isLoading') => inflight' = inflight]_vars

\* C4 witness: idle again after a generation that failed
C4_Witness ==
  /\ ~isLoading
  /\ inflight = <<>>
  /\ toast = ErrRemote

\* C6: after the response {"html":"<button>Hi</button>","css":
\* "button{color:red}","javascript":""} the artifacts are those three values
\* and the assembled document has <style>button{color:red}</style> right
\* before </head>; after any success with non-empty css and html without a
\* style block the document has the css in a style block right before </head>
C6_StyleBeforeHead ==
  [][\A response \in Responses :
       (Received(response) /\ toast' = ToastSuccess) =>
          /\ response = Block("text", TextHi) =>
               generatedCode' = [html |-> Str(HiHtml), css |-> Str(HiCss),
                                 javascript |-> Str(<<>>)]
          /\ (/\ generatedCode'.css.t = "string"
              /\ generatedCode'.css.s # <<>>
              /\ generatedCode'.html.t = "string"
              /\ ~Includes(generatedCode'.html.s, "<style>")) =>
               /\ srcDoc(generatedCode').t = "string"
               /\ Contains(srcDoc(generatedCode').s,
                           <<"<style>">> \o JsToString(generatedCode'.css)
                           \o <<"</style>", "</head>">>)]_vars

\* the prompt a generation started now would send
CurrentPrompt == BuildPrompt(mode, textInput, wireframeData(nodes))

\* C5: the prompt of a generation is built from the mode, the description and
\* the component collection at the moment it starts; later edits leave the
\* request of a generation in flight as it was sent
C5_PromptSnapshot ==
  [][/\ (Len(inflight') > Len(inflight)) =>
          /\ inflight' = Append(inflight, Request(CurrentPrompt))
          /\ <<mode', textInput', nodes'>> = <<mode, textInput, nodes>>
     /\ (Len(inflight') = Len(inflight)) => inflight' = inflight]_vars

\* C5 witness: a wireframe generation in flight whose prompt lists two
\* components while the canvas, one node deleted since, holds one
C5_Witness ==
  /\ isLoading
  /\ Len(inflight) = 1
  /\ inflight[1].prompt[1] = WirePromptHead
  /\ Contains(inflight[1].prompt, <<NodeId("button", 1000)>>)
  /\ Contains(inflight[1].prompt, <<NodeId("button", 1001)>>)
  /\ Len(nodes) = 1
  /\ inflight[1] # Request(CurrentPrompt)

\* C8: deleting a node by id removes exactly the one component of that id
\* from the derived collection and leaves the others unchanged and in
\* order; if the node was the selected one the selection pointer is empty
C8_DeleteRemovesOne ==
  [][\A id \in NodeIds :
       HandleDeleteComponent(id) =>
         LET old == wireframeData(nodes).components
             new == wireframeData(nodes').components
         IN  /\ \E k \in DOMAIN old :
                   /\ old[k].id = id
                   /\ new = SubSeq(old, 1, k - 1) \o SubSeq(old, k + 1, Len(old))
             /\ (selectedComponent = id) => (selectedComponent' = Null)]_vars

\* C9: after selecting node n its selected flag is true, the flag of every
\* other node is false and the selection pointer is n, so at most one node
\* carries the flag
C9_SelectOne ==
  [][\A id \in NodeIds :
       HandleSelectComponent(id) =>
         /\ selectedComponent' = id
         /\ \E k \in DOMAIN nodes' :
               /\ nodes'[k].id = id
               /\ \A j \in DOMAIN nodes' : nodes'[j].selected <=> (j = k)]_vars

\* C10: the ids of the components are pairwise distinct in every state
C10_UniqueIds ==
  \A i, j \in DOMAIN nodes : (i # j) => (nodes[i].id # nodes[j].id)

\* C1: at most one generation is in flight in every reachable state; a
\* generate request made while one is in progress, by the button or by the
\* debounced text input, starts no second remote call
C1_AtMostOneInFlight == Len(inflight) <= 1

\* the elements of a finished round trip agree on the fields named
RoundTripKeeps(i) ==
  /\ rt.output[i].id = rt.input[i].id
  /\ rt.output[i].type = rt.input[i].type
  /\ rt.output[i].position = rt.input[i].position
  /\ rt.output[i].size = rt.input[i].size
  /\ rt.output[i].properties =
       (IF rt.input[i].properties = Absent THEN Present(NoProperties)
        ELSE rt.input[i].properties)

\* C7 as stated: componentToNode and then nodeToComponent give a collection
\* equal to the first on id, kind, position, size and text, in the same
\* order, with properties an empty map when absent
C7_Original ==
  (rt.pc = "done") =>
     /\ Len(rt.output) = Len(rt.input)
     /\ \A i \in DOMAIN rt.input :
           RoundTripKeeps(i) /\ rt.output[i].text = rt.input[i].text

\* C7 amended: the round trip keeps order, id, kind, position and size,
\* keeps a text that is present, gives the empty string for a text that is
\* absent, and an empty map for properties that are absent
C7_RoundTrip ==
  (rt.pc = "done") =>
     /\ Len(rt.output) = Len(rt.input)
     /\ \A i \in DOMAIN rt.input :
           /\ RoundTripKeeps(i)
           /\ rt.output[i].text =
                (IF rt.input[i].text = Absent THEN Present("") ELSE rt.input[i].text)

\* C7 witness: a finished round trip of two components, the first without
\* text and without properties, the second a card labelled "Hi"
C7_Witness ==
  /\ rt.pc = "done"
  /\ Len(rt.input) = 2
  /\ rt.input[1].text = Absent
  /\ rt.input[1].properties = Absent
  /\ rt.input[2].text = Present("Hi")
  /\ rt.input[2].type = "card"
  /\ rt.output[1].text = Present("")
  /\ rt.output[2].size = [width |-> 1, height |-> 300]

\* C18: mode switches, selection changes and graph edits (add, move, update,
\* delete) are enabled in every lifecycle state, in particular while a
\* generation is awaited, and none of them changes the awaited call or the
\* loading flag
C18_EditsWhileLoading ==
  /\ [](/\ \A m \in Modes : ENABLED SetMode(m)
        /\ (mode = "wireframe") =>
             /\ (Len(nodes) < MaxNodes) =>
                   \A type \in WireTypes : \A now \in ClockReadings :
                      \A point \in DropPoints : ENABLED OnDrop(type, now, point)
             /\ \A id \in NodeIds :
                   /\ ENABLED HandleSelectComponent(id)
                   /\ \A point \in DragPoints :
                         ENABLED OnNodesChange(PositionChange(id, point))
                   /\ ENABLED OnNodesChange(RemoveChange(id))
             /\ (selectedComponent \in NodeIds) =>
                   \A text \in PanelTexts : ENABLED HandleTextChange(text))
  /\ [][(<<mode, selectedComponent, nodes>> # <<mode', selectedComponent', nodes'>>)
          => (inflight' = inflight /\ isLoading' = isLoading)]_vars

\* C19: edges have no effect on generation: a step that adds or removes an
\* edge and leaves the nodes alone changes neither the derived component
\* collection nor the prompt of the session nor an awaited request, and the
\* prompt of a request that starts is built from the mode, the description
\* and the nodes alone
C19_EdgesDoNotMatter ==
  [][/\ (edges' # edges /\ nodes' = nodes) =>
          /\ wireframeData(nodes').components = wireframeData(nodes).components
          /\ wireframeData(nodes') = wireframeData(nodes)
          /\ CurrentPrompt' = CurrentPrompt
          /\ inflight' = inflight
     /\ (Len(inflight') > Len(inflight)) =>
          inflight'[Len(inflight')].prompt =
            BuildPrompt(mode, textInput,
                        [components |-> MapSeq(nodes, nodeToComponent),
                         canvas |-> [width |-> 1200, height |-> 800]])]_vars

\* C19 witness: a wireframe generation awaited that was started with two
\* nodes and an edge between them on the canvas
C19_Witness ==
  /\ isLoading
  /\ Len(inflight) = 1
  /\ Len(nodes) = 2
  /\ Len(edges) = 1
  /\ edges[1].source # edges[1].target
  /\ inflight[1] = Request(BuildPrompt("wireframe", textInput, wireframeData(nodes)))

NoBracePair(text) ==
  ~\E i, j \in DOMAIN text : i < j /\ text[i] = "{" /\ text[j] = "}"

\* C12: a response text without a { ... } pair fails with the parse error,
\* never with the validation error and never with success
C12_NoBracesParseError ==
  [][\A response \in ExtractResponses :
       (/\ Received(response)
        /\ response.type = "text"
        /\ response.text # <<>>
        /\ NoBracePair(response.text)) => toast' = ErrParse]_vars

\* C13: a response that parses is rejected with the validation error exactly
\* when none of html, css, javascript is present and non-empty in the parsed
\* value, and succeeds when at least one is
C13_ValidationExactly ==
  [][\A response \in ExtractResponses :
       (/\ Received(response)
        /\ response.type = "text"
        /\ response.text # <<>>
        /\ Parsed(response).ok) =>
          LET none == \A key \in CodeTabs :
                         ~Truthy(Member(Parsed(response).val, <<key>>))
          IN  /\ (toast' = ErrMissing) <=> none
              /\ (~none) => (toast' = ToastSuccess)]_vars

\* the extractor of C20: the whole trimmed text is parsed first; the outer
\* brace capture is parsed only when that fails
WholeTextFirst(text) ==
  LET whole == JSONParse(Trim(text))
      opens == {i \in DOMAIN text : text[i] = "{"}
      closes == {j \in DOMAIN text : text[j] = "}"}
  IN  IF whole.ok THEN whole
      ELSE IF opens # {} /\ closes # {} /\ Min(opens) < Max(closes)
        THEN JSONParse(SubSeq(text, Min(opens), Max(closes)))
        ELSE whole

\* C20: the result of the extraction is that of parsing the whole trimmed
\* text when that succeeds, of parsing the outer brace capture otherwise, and
\* the parse error is raised only when both fail
C20_WholeTextFirstOrder ==
  [][\A response \in ExtractResponses :
       (/\ Received(response)
        /\ response.type = "text"
        /\ response.text # <<>>) =>
          LET first == WholeTextFirst(response.text)
          IN  /\ (toast' = ErrParse) <=> ~first.ok
              /\ (toast' = ToastSuccess) =>
                    \A key \in CodeTabs :
                       generatedCode'[key] =
                         (IF Truthy(Member(first.val, <<key>>))
                            THEN Member(first.val, <<key>>) ELSE Str(<<>>))]_vars

\* C17: in every reachable state the artifacts record has the three keys
\* html, css and javascript, each holding a text value
C17_ArtifactsAreText ==
  /\ DOMAIN generatedCode = CodeTabs
  /\ \A key \in CodeTabs : generatedCode[key].t = "string"

\* C14: whenever the html artifact is the untouched placeholder the
\* assembled document is the empty string, whatever css and javascript hold
\* (here for the variant with the debounced text input)
C14_PlaceholderGivesEmpty ==
  (generatedCode.html = Str(<<HtmlPlaceholder>>)) =>
     (DndSrcDoc(generatedCode) = Str(<<>>))

\* html with ins put in front of the first tok
InsertBefore(html, tok, ins) ==
  LET i == IndexOf(html, tok)
  IN  SubSeq(html, 1, i - 1) \o ins \o SubSeq(html, i, Len(html))

\* C15: for html that is not the placeholder, has a closing head tag and a
\* closing body tag and no style or script block, and css and javascript not
\* empty, the assembled document is html with <style>css</style> right
\* before </head> and <script>javascript</script> right before </body>, css
\* and javascript verbatim, and nothing else changed
C15_InjectsVerbatim ==
  (/\ \A key \in CodeTabs : generatedCode[key].t = "string"
   /\ ~Includes(generatedCode.html.s, HtmlPlaceholder)
   /\ Includes(generatedCode.html.s, "</head>")
   /\ Includes(generatedCode.html.s, "</body>")
   /\ ~Includes(generatedCode.html.s, "<style>")
   /\ ~Includes(generatedCode.html.s, "<script>")
   /\ generatedCode.css.s # <<>>
   /\ generatedCode.javascript.s # <<>>) =>
     srcDoc(generatedCode) =
       Str(InsertBefore(
             InsertBefore(generatedCode.html.s, "</body>",
                          <<"<script>">> \o generatedCode.javascript.s \o <<"</script>">>),
             "</head>",
             <<"<style>">> \o generatedCode.css.s \o <<"</style>">>))

\* C16: assembling again is a no-op: with html replaced by the assembled
\* document the assembled document is the same (here for the variant with
\* the debounced text input)
C16_ReassembleNoOp ==
  (DndSrcDoc(generatedCode).t = "string") =>
     (DndSrcDoc([generatedCode EXCEPT !.html = DndSrcDoc(generatedCode)])
        = DndSrcDoc(generatedCode))

\* the opening tags of a style block and of a script block
StyleOpenings == {"<style>", "<style media=\"screen\">"}
ScriptOpenings == {"<script>", "<script src=\"app.js\">"}

\* how many tokens of text are in the set tags
CountIn(text, tags) == Cardinality({i \in DOMAIN text : text[i] \in tags})

\* C21: when the html artifact has a style block of its own the assembled
\* document has no more style blocks than the html artifact, and when it has
\* a script block of its own the assembled document has no more script
\* blocks than the html artifact
C21_OwnBlocksSkipInjection ==
  ((\A key \in CodeTabs : generatedCode[key].t = "string")
     /\ srcDoc(generatedCode).t = "string") =>
    LET html == generatedCode.html.s
        doc == srcDoc(generatedCode).s
    IN  /\ (CountIn(html, StyleOpenings) > 0) =>
              (CountIn(doc, StyleOpenings) <= CountIn(html, StyleOpenings))
        /\ (CountIn(html, ScriptOpenings) > 0) =>
              (CountIn(doc, ScriptOpenings) <= CountIn(html, ScriptOpenings))

\* C22: whenever the html artifact is still the placeholder, the document
\* handed to the frame of the preview is the static placeholder page, not
\* the empty string
C22_PlaceholderPageShown ==
  (generatedCode.html = Str(<<HtmlPlaceholder>>)) =>
     (finalSrcDoc(srcDoc(generatedCode)) = Str(defaultHtml))

Kinds == {"header", "button", "input", "text", "image", "card"}

\* C24: in every reachable state every component of the collection, of the
\* graph and of the dnd-kit canvas, has one of the six kinds, whichever
\* palette item was dropped
C24_KindsClosed ==
  /\ \A i \in DOMAIN nodes : wireframeData(nodes).components[i].type \in Kinds
  /\ \A i \in DOMAIN components : components[i].type \in Kinds

\* C25: after any drops, moves and updates from the properties panel every
\* component of the derived collection has x >= 0, y >= 0, width > 0 and
\* height > 0
C25_GeometryInRange ==
  \A i \in DOMAIN nodes :
     LET comp == wireframeData(nodes).components[i]
     IN  /\ comp.position.x >= 0
         /\ comp.position.y >= 0
         /\ comp.size.width > 0
         /\ comp.size.height > 0

\* C26: the loading flag is true exactly when a remote call is awaited; in
\* particular loading = false implies that no call is outstanding, also when
\* generations started by the button and by the debounce timer overlap
C26_LoadingIffInFlight == isLoading <=> (Len(inflight) > 0)

\* C27: a response to an earlier request never overwrites the result of a
\* later one: no awaited call that a later call has overtaken sets the
\* code, so once all calls have ended the code is that of the last request
\* started that ended with success
C27_LatestResultWins ==
  [][\A i \in DOMAIN inflight : \A response \in DndResponses :
       (DndComplete(i, response) /\ DndOutcome(response).error = "")
          => ~overtaken[i]]_vars

\* C28: whenever the selection pointer is not empty it names a node of the
\* graph, so the properties panel finds its component
C28_SelectionNamesNode ==
  (selectedComponent # Null) => (selectedComponent \in NodeIds)

\* the selection pointer and the selected flags agree: a node carries the
\* flag exactly when the pointer is its id
SelectionAgrees ==
  \A i \in DOMAIN nodes : nodes[i].selected <=> (selectedComponent = nodes[i].id)

\* C29: selecting a node, deleting a node and closing the properties panel
\* keep the selection pointer and the selected flags in agreement
C29_PointerMatchesFlags ==
  [][(/\ SelectionAgrees
      /\ \/ \E id \in NodeIds : HandleSelectComponent(id)
         \/ \E id \in NodeIds : HandleDeleteComponent(id)
         \/ OnClose) => SelectionAgrees']_vars

\* C30: deleting a node that is not the selected one leaves the selection
\* pointer as it is
C30_DeleteOtherKeepsSelection ==
  [][\A id \in NodeIds :
       (/\ selectedComponent \in NodeIds
        /\ selectedComponent # id
        /\ HandleDeleteComponent(id)) => (selectedComponent' = selectedComponent)]_vars

====
